---- MODULE Spec2Model ----
(***************************************************************************)
(* Profile synchronizer (sync-user-profile, three handler variants),       *)
(* delivery gateway (updateMultipleEntregasOptimization, deleteEntrega)    *)
(* and the status translators of glaubern8n01/aplicativo.                  *)
(*                                                                         *)
(* Three specifications share the variables:                               *)
(*   Spec        concurrent sync requests against the usuarios_rotaspeed   *)
(*               table, interleaved at the store calls (select, insert)    *)
(*   SpecBulk    one updateMultipleEntregasOptimization call, with         *)
(*               concurrent deleteEntrega calls                            *)
(*   SpecStatus  the two status translators applied to drawn inputs        *)
(***************************************************************************)
EXTENDS Integers, Sequences, FiniteSets, TLC

VARIABLES
    variant,    \* which sync handler is deployed
    usuarios,   \* table usuarios_rotaspeed: a set of rows
    req,        \* the sync requests: position, inputs, locals, response
    entregas,   \* table entregas: a set of rows
    bulk,       \* the updateMultipleEntregasOptimization call
    storeLog,   \* the update calls the store received from it, in order
    tr,         \* a status translation in progress
    console     \* console.warn lines of the translators

vars == <<variant, usuarios, req, entregas, bulk, storeLog, tr, console>>

\* ------------------------------------------------------------------ bounds
NReq == 2          \* concurrent sync requests
MaxUpdates == 3    \* length of the updates array of a bulk call
MaxConsole == 2    \* console lines kept

\* ------------------------------------------------------------------ values
Undefined == "<undefined>"    \* a JS value that is absent (undefined)
Requests == 1..NReq
Variants == {"edge", "edge_iota", "next"}
    \* edge      src/supabase/functions/sync-user-profile/index.ts
    \* edge_iota src/unnamed/part_000
    \* next      src/unnamed/part_001, handler
UserIds == {"u1", "u2"}
Dates == {"2024-05-01", "2024-05-02"}
TimeOfDay == "08:00:00.000Z"

\* new Date().toISOString(): date, "T", time of day
toISOString(date) == <<date, "T", TimeOfDay>>
\* .split("T")[0]
splitT0(iso) == iso[1]

\* !x for a string or an absent value
Falsy(x) == x = Undefined \/ x = ""

\* a ?? b
Coalesce(a, b) == IF a = Undefined THEN b ELSE a

\* ------------------------------------------------------------------ store
DuplicateKey == "duplicate key value violates unique constraint"
ConnectionError == "connection refused"
MultipleRows == "JSON object requested, multiple (or no) rows returned"

RowsById(table, id) == {row \in table : row.id = id}

\* The uniqueness constraint on id of the table.
UniqueViolation(table, row) == RowsById(table, row.id) # {}

\* .select("*").eq("id", id).maybeSingle(): data is <<>> (null) or <<row>>
maybeSingle(table, id) ==
    LET rows == RowsById(table, id) IN
    IF Cardinality(rows) > 1 THEN [data |-> <<>>, error |-> MultipleRows]
    ELSE IF rows = {} THEN [data |-> <<>>, error |-> Undefined]
    ELSE [data |-> <<CHOOSE row \in rows : TRUE>>, error |-> Undefined]

\* a wrong insert: .upsert(row), which replaces the row of the same id
upsert(table, row) ==
    [table |-> (table \ RowsById(table, row.id)) \cup {row}, error |-> Undefined]

\* .insert([row])
insert(table, row) ==
    IF UniqueViolation(table, row)
    THEN [table |-> table, error |-> DuplicateKey]
    ELSE [table |-> table \cup {row}, error |-> Undefined]

\* ------------------------------------------------------------------ sync
\* a wrong payload: the daily quota left 0
NewProfileNoQuota(v, userId, email, nome, date) ==
    IF v = "edge"
    THEN [id |-> userId, email |-> email, nome |-> Coalesce(nome, "Entregador"),
          plano_nome |-> "Start", status_plano |-> "ativo",
          entregas_max_diarias |-> 0, entregas_dia_corrente |-> 0,
          creditos_disponiveis |-> 0, entregas_gratis_utilizadas |-> 0,
          data_ultima_entrega_dia |-> splitT0(toISOString(date))]
    ELSE [id |-> userId, email |-> email, nome |-> Coalesce(nome, "Entregador"),
          plano_nome |-> "Start", plano_ativo |-> TRUE,
          entregas_dia_max |-> 0, entregas_hoje |-> 0,
          saldo_creditos |-> 0, entregas_gratis_utilizadas |-> 0,
          ultima_atualizacao |-> IF v = "next" THEN toISOString(date)
                                 ELSE splitT0(toISOString(date))]

\* the row a handler inserts for a new user
NewProfile(v, userId, email, nome, date) ==
    IF v = "edge"
    THEN [id |-> userId, email |-> email, nome |-> Coalesce(nome, "Entregador"),
          plano_nome |-> "Start", status_plano |-> "ativo",
          entregas_max_diarias |-> 10, entregas_dia_corrente |-> 0,
          creditos_disponiveis |-> 0, entregas_gratis_utilizadas |-> 0,
          data_ultima_entrega_dia |-> splitT0(toISOString(date))]
    ELSE [id |-> userId, email |-> email, nome |-> Coalesce(nome, "Entregador"),
          plano_nome |-> "Start", plano_ativo |-> TRUE,
          entregas_dia_max |-> 10, entregas_hoje |-> 0,
          saldo_creditos |-> 0, entregas_gratis_utilizadas |-> 0,
          ultima_atualizacao |-> IF v = "next" THEN toISOString(date)
                                 ELSE splitT0(toISOString(date))]

\* JSON response: status and the keys of the body (Undefined: key absent).
\* Accents of the source's messages are dropped.
Response(status, text, error, detail, message, success) ==
    [status |-> status, text |-> text, error |-> error, detail |-> detail,
     message |-> message, success |-> success]

NoResponse == Response(0, Undefined, Undefined, Undefined, Undefined, Undefined)

ErrorResponse(status, error, detail) ==
    Response(status, Undefined, error, detail, Undefined, Undefined)

OptionsResponse(v) ==
    IF v = "next"
    THEN Response(200, Undefined, Undefined, Undefined, Undefined, Undefined)
    ELSE Response(200, "ok", Undefined, Undefined, Undefined, Undefined)

MethodNotAllowedResponse == ErrorResponse(405, "Metodo nao permitido", Undefined)

InvalidJsonResponse == ErrorResponse(400, "JSON invalido", Undefined)

MissingFieldsResponse(v) ==
    IF v = "next"
    THEN ErrorResponse(400, "userId e email sao obrigatorios", Undefined)
    ELSE ErrorResponse(400, "Campos obrigatorios ausentes", Undefined)

FetchErrorResponse(v, message) ==
    CASE v = "edge" -> ErrorResponse(500, "Erro ao buscar usuario", message)
      [] v = "edge_iota" -> ErrorResponse(500, "Erro ao buscar usuario", Undefined)
      [] v = "next" -> ErrorResponse(500, message, Undefined)

InsertErrorResponse(v, message) ==
    CASE v = "edge" -> ErrorResponse(500, "Erro ao criar usuario", message)
      [] v = "edge_iota" -> ErrorResponse(500, "Erro ao criar usuario", Undefined)
      [] v = "next" -> ErrorResponse(500, message, Undefined)

SuccessResponse(v) ==
    IF v = "next"
    THEN Response(200, Undefined, Undefined, Undefined, Undefined, "true")
    ELSE Response(200, Undefined, Undefined, Undefined,
                  "Perfil sincronizado com sucesso", Undefined)

\* a wrong validation: only userId is required
MissingUserIdOnly(userId, email) == Falsy(userId)

\* !userId || !email
MissingRequired(userId, email) == Falsy(userId) \/ Falsy(email)

\* A request: its position, the HTTP request (method, whether the body parses
\* as JSON, the body's userId, email, nome), the handler's locals
\* (existingUser: <<>> for null; fetchError, insertError), its response, and
\* the store calls it has issued (reads: select, writes: insert).
IdleRequest ==
    [pc |-> "idle", method |-> Undefined, parses |-> TRUE,
     userId |-> Undefined, email |-> Undefined, nome |-> Undefined,
     existingUser |-> <<>>, fetchError |-> Undefined, insertError |-> Undefined,
     response |-> NoResponse, reads |-> 0, writes |-> 0]

Methods == {"OPTIONS", "GET", "POST"}
BodyUserIds == {Undefined, ""} \cup UserIds
BodyEmails == {Undefined, "", "a@b.c"}
BodyNomes == {Undefined, "Ana"}

Arrived(method, parses, userId, email, nome) ==
    [IdleRequest EXCEPT !.method = method, !.parses = parses, !.userId = userId,
                        !.email = email, !.nome = nome]

Respond(q, response) == [q EXCEPT !.pc = "done", !.response = response]

\* a wrong handler: the fetchError check does not return
afterLookupNoReturn(v, q, res) ==
    IF res.data = <<>>
    THEN [q EXCEPT !.pc = "insert", !.fetchError = res.error]
    ELSE Respond([q EXCEPT !.existingUser = res.data], SuccessResponse(v))

\* a wrong handler: the insert is not guarded by !existingUser
afterLookupNoGuard(v, q, res) ==
    IF res.error # Undefined
    THEN Respond([q EXCEPT !.fetchError = res.error],
                 FetchErrorResponse(v, res.error))
    ELSE [q EXCEPT !.pc = "insert", !.existingUser = res.data]

\* the handler from the answer of the select to its next store call or response
afterLookup(v, q, res) ==
    IF res.error # Undefined
    THEN Respond([q EXCEPT !.fetchError = res.error],
                 FetchErrorResponse(v, res.error))
    ELSE IF res.data = <<>>
    THEN [q EXCEPT !.pc = "insert", !.existingUser = res.data]
    ELSE Respond([q EXCEPT !.existingUser = res.data], SuccessResponse(v))

\* the handler from the answer of the insert to its response
afterInsert(v, q, res) ==
    IF res.error # Undefined
    THEN Respond([q EXCEPT !.insertError = res.error],
                 InsertErrorResponse(v, res.error))
    ELSE Respond(q, SuccessResponse(v))

SyncUnchanged == UNCHANGED <<variant, entregas, bulk, storeLog, tr, console>>

\* OPTIONS preflight
Options(r) ==
    /\ req[r].pc = "idle"
    /\ req' = [req EXCEPT ![r] =
           Respond(Arrived("OPTIONS", TRUE, Undefined, Undefined, Undefined),
                   OptionsResponse(variant))]
    /\ UNCHANGED usuarios /\ SyncUnchanged

\* a method other than OPTIONS and POST
MethodNotAllowed(r) ==
    /\ req[r].pc = "idle"
    /\ \E m \in Methods \ {"OPTIONS", "POST"} :
         req' = [req EXCEPT ![r] =
             Respond(Arrived(m, TRUE, Undefined, Undefined, Undefined),
                     MethodNotAllowedResponse)]
    /\ UNCHANGED usuarios /\ SyncUnchanged

\* POST whose body is no JSON: req.json() throws. The next variant reads
\* req.body, which the framework has parsed before the handler runs.
InvalidJson(r) ==
    /\ req[r].pc = "idle"
    /\ variant # "next"
    /\ req' = [req EXCEPT ![r] =
           Respond(Arrived("POST", FALSE, Undefined, Undefined, Undefined),
                   InvalidJsonResponse)]
    /\ UNCHANGED usuarios /\ SyncUnchanged

\* POST with a JSON body: validation, then the select is issued
Post(r) ==
    /\ req[r].pc = "idle"
    /\ \E userId \in BodyUserIds, email \in BodyEmails, nome \in BodyNomes :
         LET q == Arrived("POST", TRUE, userId, email, nome) IN
         req' = [req EXCEPT ![r] =
             IF MissingRequired(userId, email)
             THEN Respond(q, MissingFieldsResponse(variant))
             ELSE [q EXCEPT !.pc = "lookup", !.reads = @ + 1]]
    /\ UNCHANGED usuarios /\ SyncUnchanged

\* the store answers the select
Lookup(r) ==
    /\ req[r].pc = "lookup"
    /\ LET q == afterLookup(variant, req[r], maybeSingle(usuarios, req[r].userId)) IN
       req' = [req EXCEPT ![r] =
           IF q.pc = "insert" THEN [q EXCEPT !.writes = @ + 1] ELSE q]
    /\ UNCHANGED usuarios /\ SyncUnchanged

\* the select fails in the store or on the way
LookupFails(r) ==
    /\ req[r].pc = "lookup"
    /\ LET q == afterLookup(variant, req[r],
                            [data |-> <<>>, error |-> ConnectionError]) IN
       req' = [req EXCEPT ![r] =
           IF q.pc = "insert" THEN [q EXCEPT !.writes = @ + 1] ELSE q]
    /\ UNCHANGED usuarios /\ SyncUnchanged

\* the store executes the insert; the payload's date is the clock's
Insert(r) ==
    /\ req[r].pc = "insert"
    /\ \E date \in Dates :
         LET q == req[r]
             res == insert(usuarios,
                           NewProfile(variant, q.userId, q.email, q.nome, date))
         IN /\ usuarios' = res.table
            /\ req' = [req EXCEPT ![r] = afterInsert(variant, q, res)]
    /\ SyncUnchanged

\* the insert fails in the store or on the way
InsertFails(r) ==
    /\ req[r].pc = "insert"
    /\ req' = [req EXCEPT ![r] =
           afterInsert(variant, @, [table |-> usuarios, error |-> ConnectionError])]
    /\ UNCHANGED usuarios /\ SyncUnchanged

\* updateUserProfileSettings(userId, settings): .update(settings).eq("id", userId)
SettingsInputs == {[plano_nome |-> "Pro", entregas_gratis_utilizadas |-> 1]}

Merge(row, settings) ==
    [k \in DOMAIN row |-> IF k \in DOMAIN settings THEN settings[k] ELSE row[k]]

updateUserProfileSettings(userId, settings) ==
    /\ RowsById(usuarios, userId) # {}
    /\ usuarios' = (usuarios \ RowsById(usuarios, userId))
                   \cup {Merge(row, settings) : row \in RowsById(usuarios, userId)}
    /\ usuarios' # usuarios
    /\ UNCHANGED req /\ SyncUnchanged

SyncStep(r) ==
    \/ Options(r) \/ MethodNotAllowed(r) \/ InvalidJson(r) \/ Post(r)
    \/ Lookup(r) \/ LookupFails(r) \/ Insert(r) \/ InsertFails(r)

\* ------------------------------------------------------------------ status
Null == "<null>"    \* a column that is null

DBStatuses == {"pendente", "em_rota", "entregue", "cancelada", "nao_entregue"}
PackageStatuses == {"pending", "in_transit", "delivered", "cancelled",
                    "undeliverable", "parsed", "error"}
\* values outside the two vocabularies
UnknownDBStatuses == {"devolvida", "pending"}
UnknownPackageStatuses == {"returned", "pendente"}

Translated(value) == [value |-> value, warn |-> <<>>]
Defaulted(value, line) == [value |-> value, warn |-> <<line>>]

mapDBStatusToPackageStatus(dbStatus) ==
    CASE dbStatus = "pendente" -> Translated("pending")
      [] dbStatus = "em_rota" -> Translated("in_transit")
      [] dbStatus = "entregue" -> Translated("delivered")
      [] dbStatus = "cancelada" -> Translated("cancelled")
      [] dbStatus = "nao_entregue" -> Translated("undeliverable")
      [] OTHER -> Defaulted("pending", <<"Unhandled DB status", dbStatus>>)

\* a wrong translator: undeliverable stored as cancelada
mapPackageStatusToDBStatusTypo(packageStatus) ==
    CASE packageStatus = "pending" -> Translated("pendente")
      [] packageStatus = "in_transit" -> Translated("em_rota")
      [] packageStatus = "delivered" -> Translated("entregue")
      [] packageStatus = "cancelled" -> Translated("cancelada")
      [] packageStatus = "undeliverable" -> Translated("cancelada")
      [] packageStatus \in {"parsed", "error"} ->
           Defaulted("pendente", <<"Package status mapped to pendente", packageStatus>>)
      [] OTHER ->
           Defaulted("pendente", <<"Unhandled PackageInfo status", packageStatus>>)

\* a wrong translator: error stored as cancelada, without a diagnostic
mapPackageStatusToDBStatusError(packageStatus) ==
    CASE packageStatus = "pending" -> Translated("pendente")
      [] packageStatus = "in_transit" -> Translated("em_rota")
      [] packageStatus = "delivered" -> Translated("entregue")
      [] packageStatus = "cancelled" -> Translated("cancelada")
      [] packageStatus = "undeliverable" -> Translated("nao_entregue")
      [] packageStatus = "error" -> Translated("cancelada")
      [] packageStatus = "parsed" ->
           Defaulted("pendente", <<"Package status mapped to pendente", packageStatus>>)
      [] OTHER ->
           Defaulted("pendente", <<"Unhandled PackageInfo status", packageStatus>>)

mapPackageStatusToDBStatus(packageStatus) ==
    CASE packageStatus = "pending" -> Translated("pendente")
      [] packageStatus = "in_transit" -> Translated("em_rota")
      [] packageStatus = "delivered" -> Translated("entregue")
      [] packageStatus = "cancelled" -> Translated("cancelada")
      [] packageStatus = "undeliverable" -> Translated("nao_entregue")
      [] packageStatus \in {"parsed", "error"} ->
           Defaulted("pendente", <<"Package status mapped to pendente", packageStatus>>)
      [] OTHER ->
           Defaulted("pendente", <<"Unhandled PackageInfo status", packageStatus>>)

\* A translation round: a drawn input (of: "db" a persisted status read back,
\* "app" an application status written), translated (mid), then translated
\* back (out).
IdleTranslation ==
    [pc |-> "idle", of |-> Undefined, input |-> Undefined, mid |-> Undefined,
     out |-> Undefined]

translate(direction, status) ==
    IF direction = "toApp" THEN mapDBStatusToPackageStatus(status)
    ELSE mapPackageStatusToDBStatus(status)

StatusUnchanged == UNCHANGED <<variant, usuarios, req, entregas, bulk, storeLog>>

\* a persisted status is read
DrawPersisted ==
    /\ tr.pc \in {"idle", "done"}
    /\ Len(console) < MaxConsole
    /\ \E s \in DBStatuses \cup UnknownDBStatuses :
         tr' = [IdleTranslation EXCEPT !.pc = "drawn", !.of = "db", !.input = s]
    /\ UNCHANGED console /\ StatusUnchanged

\* an application status is to be written
DrawApplication ==
    /\ tr.pc \in {"idle", "done"}
    /\ Len(console) < MaxConsole
    /\ \E s \in PackageStatuses \cup UnknownPackageStatuses :
         tr' = [IdleTranslation EXCEPT !.pc = "drawn", !.of = "app", !.input = s]
    /\ UNCHANGED console /\ StatusUnchanged

\* the first translation of the round
TranslateFirst ==
    /\ tr.pc = "drawn"
    /\ LET t == translate(IF tr.of = "db" THEN "toApp" ELSE "toDB", tr.input) IN
       /\ tr' = [tr EXCEPT !.pc = "half", !.mid = t.value]
       /\ console' = console \o t.warn
    /\ StatusUnchanged

\* the translation back
TranslateBack ==
    /\ tr.pc = "half"
    /\ LET t == translate(IF tr.of = "db" THEN "toDB" ELSE "toApp", tr.mid) IN
       /\ tr' = [tr EXCEPT !.pc = "done", !.out = t.value]
       /\ console' = console \o t.warn
    /\ StatusUnchanged

\* ------------------------------------------------------------------ entregas
EntregaIds == {"d1", "d2"}
UpdateOrders == {1, 2}
UpdateRoutes == {"r1"}
UpdateStatuses == {"pendente", "em_rota"}

\* a row of entregas as first stored
StoredEntrega(id) ==
    [id |-> id, user_id |-> "u1", full_address |-> "Rua A, 1",
     recipient_name |-> IF id = "d1" THEN "Ana" ELSE Null,
     original_input |-> Null, input_type |-> IF id = "d1" THEN "text" ELSE Null,
     status |-> "pendente", optimized_order |-> 0, route_id |-> "r0"]

\* x ?? undefined
NullToUndefined(x) == IF x = Null THEN Undefined ELSE x

mapDbRecordToPackageInfo(dbRecord) ==
    [id |-> dbRecord.id, user_id |-> dbRecord.user_id,
     optimized_order |-> dbRecord.optimized_order, route_id |-> dbRecord.route_id,
     fullAddress |-> dbRecord.full_address,
     recipientName |-> NullToUndefined(dbRecord.recipient_name),
     originalInput |-> NullToUndefined(dbRecord.original_input),
     inputType |-> IF dbRecord.input_type \in {Null, ""} THEN Undefined
                   ELSE dbRecord.input_type,
     status |-> mapDBStatusToPackageStatus(dbRecord.status).value]

UpdatePayload(update) ==
    [optimized_order |-> update.optimized_order, route_id |-> update.route_id,
     status |-> update.status]

\* .update(payload).eq("id", id).select().single(): data is <<>> or <<row>>
updateSingle(table, id, payload) ==
    LET rows == RowsById(table, id)
        updated == {Merge(row, payload) : row \in rows}
    IN IF Cardinality(rows) # 1
       THEN [table |-> (table \ rows) \cup updated, data |-> <<>>, error |-> MultipleRows]
       ELSE [table |-> (table \ rows) \cup updated,
             data |-> <<CHOOSE row \in updated : TRUE>>, error |-> Undefined]

\* The call: its position, its argument, the index of the update in flight
\* (the for-of loop), its results array.
IdleBulk == [pc |-> "idle", updates |-> <<>>, i |-> 0, results |-> <<>>]

Updates ==
    [id : EntregaIds, optimized_order : UpdateOrders, route_id : UpdateRoutes,
     status : UpdateStatuses]

UpdateArrays == UNION {[1..n -> Updates] : n \in 0..MaxUpdates}

\* the loop goes on to the next update, or the call returns results
nextUpdate(b) ==
    IF b.i < Len(b.updates) THEN [b EXCEPT !.i = @ + 1]
    ELSE [b EXCEPT !.pc = "done"]

\* a wrong loop: the first failure ends the call
afterUpdateAbort(b, res) ==
    IF res.error # Undefined THEN [b EXCEPT !.pc = "done"]
    ELSE IF res.data # <<>>
    THEN nextUpdate([b EXCEPT !.results =
                         Append(@, mapDbRecordToPackageInfo(res.data[1]))])
    ELSE nextUpdate(b)

\* the loop body from the answer of the update on
afterUpdate(b, res) ==
    IF res.error # Undefined THEN nextUpdate(b)
    ELSE IF res.data # <<>>
    THEN nextUpdate([b EXCEPT !.results =
                         Append(@, mapDbRecordToPackageInfo(res.data[1]))])
    ELSE nextUpdate(b)

BulkUnchanged == UNCHANGED <<variant, usuarios, req, tr, console>>

\* updateMultipleEntregasOptimization(updates) is called
CallBulk ==
    /\ bulk.pc = "idle"
    /\ \E updates \in UpdateArrays :
         bulk' = IF Len(updates) = 0
                 THEN [IdleBulk EXCEPT !.pc = "done"]
                 ELSE [IdleBulk EXCEPT !.pc = "loop", !.updates = updates, !.i = 1]
    /\ UNCHANGED <<entregas, storeLog>> /\ BulkUnchanged

\* the store executes the update in flight and the loop takes its answer
Update ==
    /\ bulk.pc = "loop"
    /\ LET update == bulk.updates[bulk.i]
           res == updateSingle(entregas, update.id, UpdatePayload(update))
       IN /\ entregas' = res.table
          /\ storeLog' = Append(storeLog, [update |-> update,
                                           ok |-> res.error = Undefined])
          /\ bulk' = afterUpdate(bulk, res)
    /\ BulkUnchanged

\* the update in flight fails in the store or on the way
UpdateFails ==
    /\ bulk.pc = "loop"
    /\ storeLog' = Append(storeLog, [update |-> bulk.updates[bulk.i], ok |-> FALSE])
    /\ bulk' = afterUpdate(bulk, [table |-> entregas, data |-> <<>>,
                                  error |-> ConnectionError])
    /\ UNCHANGED entregas /\ BulkUnchanged

\* deleteEntrega(entregaId), called concurrently: .delete().eq("id", entregaId)
deleteEntrega(entregaId) ==
    /\ RowsById(entregas, entregaId) # {}
    /\ entregas' = entregas \ RowsById(entregas, entregaId)
    /\ UNCHANGED <<bulk, storeLog>> /\ BulkUnchanged

InitOther ==
    /\ entregas = {}
    /\ bulk = IdleBulk
    /\ storeLog = <<>>
    /\ tr = IdleTranslation
    /\ console = <<>>

Init ==
    /\ variant \in Variants
    /\ usuarios = {}
    /\ req = [r \in Requests |-> IdleRequest]
    /\ InitOther

Next ==
    \/ \E r \in Requests : SyncStep(r)
    \/ \E userId \in UserIds, settings \in SettingsInputs :
         updateUserProfileSettings(userId, settings)

Spec == Init /\ [][Next]_vars

InitStatus ==
    /\ variant = "edge"
    /\ usuarios = {}
    /\ req = [r \in Requests |-> IdleRequest]
    /\ InitOther

NextStatus == DrawPersisted \/ DrawApplication \/ TranslateFirst \/ TranslateBack

SpecStatus == InitStatus /\ [][NextStatus]_vars

InitBulk ==
    /\ variant = "edge"
    /\ usuarios = {}
    /\ req = [r \in Requests |-> IdleRequest]
    /\ entregas = {StoredEntrega(id) : id \in EntregaIds}
    /\ bulk = IdleBulk
    /\ storeLog = <<>>
    /\ tr = IdleTranslation
    /\ console = <<>>

NextBulk ==
    \/ CallBulk \/ Update \/ UpdateFails
    \/ \E entregaId \in EntregaIds : deleteEntrega(entregaId)

SpecBulk == InitBulk /\ [][NextBulk]_vars

\* ------------------------------------------------------------------ claims
Done(r) == req[r].pc = "done"

\* C1: a request whose insert fails with a duplicate-key violation (the other
\* request of a concurrent pair inserted first) still answers 200.
C1_DuplicateKeyAnswers200 ==
    \A r \in Requests :
        Done(r) /\ req[r].insertError = DuplicateKey => req[r].response.status = 200

\* C2: the table never holds two rows of one user id, and no step of a sync
\* request deletes or modifies a row of the table.
C2_OneRowPerUser ==
    /\ [](\A x \in usuarios, y \in usuarios : x.id = y.id => x = y)
    /\ [][req' # req => usuarios \subseteq usuarios']_vars

C2_Witness ==
    \E r1 \in Requests, r2 \in Requests :
        /\ r1 # r2 /\ Done(r1) /\ Done(r2)
        /\ req[r1].userId = req[r2].userId /\ req[r1].nome # req[r2].nome
        /\ req[r1].writes = 1 /\ req[r2].writes = 1
        /\ Cardinality(RowsById(usuarios, req[r1].userId)) = 1

\* C3: a request that finds its profile row issues no insert and answers 200,
\* and the step in which it finds the row leaves the table as it is.
C3_ExistingProfileNoWrite ==
    /\ [](\A r \in Requests :
            req[r].existingUser # <<>> =>
                /\ req[r].writes = 0
                /\ Done(r) /\ req[r].response.status = 200)
    /\ [][\A r \in Requests :
            req'[r] # req[r] /\ req'[r].existingUser # <<>> => usuarios' = usuarios]_vars

C3_Witness ==
    \E r \in Requests :
        /\ Done(r) /\ req[r].existingUser # <<>>
        /\ req[r].existingUser[1].plano_nome = "Pro"
        /\ req[r].existingUser[1] \in usuarios
        /\ req[r].response.status = 200

\* the defaults of a new profile row, under the column names of the variant
HasDefaults(v, row, nome) ==
    /\ row.plano_nome = "Start"
    /\ row.entregas_gratis_utilizadas = 0
    /\ row.nome = (IF nome = Undefined THEN "Entregador" ELSE nome)
    /\ IF v = "edge"
       THEN /\ row.status_plano = "ativo"
            /\ row.entregas_max_diarias = 10
            /\ row.entregas_dia_corrente = 0
            /\ row.creditos_disponiveis = 0
       ELSE /\ row.plano_ativo = TRUE
            /\ row.entregas_dia_max = 10
            /\ row.entregas_hoje = 0
            /\ row.saldo_creditos = 0

\* C4: an insert of a sync request that no store failure hits adds exactly one
\* row, of the request's userId and with the default fields, and answers 200.
C4_NewProfileDefaults ==
    [][\A r \in Requests :
          req[r].pc = "insert" /\ req'[r].pc = "done"
          /\ req'[r].insertError = Undefined =>
              /\ req'[r].response.status = 200
              /\ \E row \in usuarios' :
                    /\ row \notin usuarios
                    /\ usuarios' = usuarios \cup {row}
                    /\ row.id = req[r].userId
                    /\ row.email = req[r].email
                    /\ HasDefaults(variant, row, req[r].nome)]_vars

C4_Witness ==
    \E r \in Requests :
        /\ Done(r) /\ req[r].writes = 1 /\ req[r].insertError = Undefined
        /\ req[r].nome = Undefined
        /\ req[r].response.status = 200
        /\ \E row \in usuarios : row.id = req[r].userId /\ row.nome = "Entregador"

\* C5: a POST whose JSON body lacks userId or email (absent or empty) is
\* answered 400 and has issued neither a select nor an insert.
C5_MissingFields400 ==
    \A r \in Requests :
        /\ req[r].pc # "idle" /\ req[r].method = "POST" /\ req[r].parses
        /\ req[r].userId \in {Undefined, ""} \/ req[r].email \in {Undefined, ""}
        => /\ Done(r) /\ req[r].response.status = 400
           /\ req[r].reads = 0 /\ req[r].writes = 0

C5_Witness ==
    \E r \in Requests :
        /\ Done(r) /\ req[r].method = "POST" /\ req[r].parses
        /\ req[r].userId \in UserIds /\ req[r].email = ""
        /\ req[r].response.status = 400 /\ req[r].reads = 0

\* C6: a request whose select failed is answered 500 and issues no insert; a
\* request whose select found no row, without an error, goes on to the insert.
C6_LookupFailure500 ==
    \A r \in Requests :
        /\ req[r].fetchError # Undefined =>
               Done(r) /\ req[r].response.status = 500 /\ req[r].writes = 0
        /\ req[r].pc \in {"insert", "done"} /\ req[r].reads = 1
           /\ req[r].fetchError = Undefined /\ req[r].existingUser = <<>>
           => req[r].writes = 1

C6_Witness ==
    \E r1 \in Requests, r2 \in Requests :
        /\ Done(r1) /\ req[r1].fetchError = ConnectionError
        /\ req[r1].response.status = 500 /\ usuarios = {}
        /\ req[r2].pc = "insert" /\ req[r2].userId = req[r1].userId

\* C10: every store failure of a sync request, of the select or of the insert,
\* is answered 500 with the store's error text in the response body.
C10_StoreFailureDetail ==
    \A r \in Requests :
        LET text == IF req[r].fetchError # Undefined THEN req[r].fetchError
                    ELSE req[r].insertError
        IN Done(r) /\ text # Undefined =>
               /\ req[r].response.status = 500
               /\ text \in {req[r].response.detail, req[r].response.error}

\* the application name of each persisted status
Canonical ==
    {<<"pendente", "pending">>, <<"em_rota", "in_transit">>,
     <<"entregue", "delivered">>, <<"cancelada", "cancelled">>,
     <<"nao_entregue", "undeliverable">>}

\* C7: the call issues its updates one at a time, all of them, in input order;
\* it returns the records of the updates that succeeded, in that order; a
\* failed update changes nothing in the table.
C7_BulkPartialSuccess ==
    /\ [](/\ bulk.pc = "loop" => Len(storeLog) = bulk.i - 1
          /\ \A k \in 1..Len(storeLog) : storeLog[k].update = bulk.updates[k]
          /\ bulk.pc = "done" =>
                LET ok == SelectSeq(storeLog, LAMBDA e : e.ok) IN
                /\ Len(storeLog) = Len(bulk.updates)
                /\ Len(bulk.results) = Len(ok)
                /\ \A k \in 1..Len(ok) :
                      /\ bulk.results[k].id = ok[k].update.id
                      /\ bulk.results[k].optimized_order = ok[k].update.optimized_order
                      /\ bulk.results[k].route_id = ok[k].update.route_id
                      /\ <<ok[k].update.status, bulk.results[k].status>> \in Canonical)
    /\ [][storeLog' # storeLog /\ ~storeLog'[Len(storeLog')].ok =>
              entregas' = entregas /\ bulk'.results = bulk.results]_vars

C7_Witness ==
    /\ bulk.pc = "done" /\ Len(bulk.updates) = 3
    /\ storeLog[1].ok /\ ~storeLog[2].ok /\ storeLog[3].ok
    /\ Len(bulk.results) = 2
    /\ bulk.results[1].id = bulk.updates[1].id
    /\ bulk.results[2].id = bulk.updates[3].id
    /\ bulk.updates[1].id # bulk.updates[3].id
    /\ \E row \in entregas :
          row.id = bulk.updates[1].id
          /\ row.optimized_order = bulk.updates[1].optimized_order

\* C8: a canonical persisted status translated to the application and back is
\* itself, through its application name; and a canonical application status
\* translated to the store and back is itself.
C8_RoundTrip ==
    /\ tr.pc \in {"half", "done"} /\ tr.of = "db" /\ tr.input \in DBStatuses =>
           <<tr.input, tr.mid>> \in Canonical
    /\ tr.pc = "done" /\ tr.of = "db" /\ tr.input \in DBStatuses =>
           tr.out = tr.input
    /\ tr.pc = "done" /\ tr.of = "app"
       /\ tr.input \in {c[2] : c \in Canonical} => tr.out = tr.input

C8_Witness ==
    /\ tr.pc = "done" /\ tr.of = "db" /\ tr.input = "nao_entregue"
    /\ tr.mid = "undeliverable" /\ tr.out = "nao_entregue"

\* C9: parsed, error and every unrecognized application status are stored as
\* pendente; every unrecognized persisted status is read as pending; each of
\* these emits a diagnostic naming the value; parsed and error come back as
\* pending.
C9_PendingDefault ==
    /\ tr.pc \in {"half", "done"} /\ tr.of = "app"
       /\ tr.input \notin {c[2] : c \in Canonical} => tr.mid = "pendente"
    /\ tr.pc \in {"half", "done"} /\ tr.of = "db"
       /\ tr.input \notin {c[1] : c \in Canonical} => tr.mid = "pending"
    /\ tr.pc = "half" /\ tr.input \notin {c[IF tr.of = "db" THEN 1 ELSE 2] : c \in Canonical} =>
           /\ console # <<>>
           /\ console[Len(console)][2] = tr.input
    /\ tr.pc = "done" /\ tr.of = "app" /\ tr.input \in {"parsed", "error"} =>
           tr.out = "pending"

C9_Witness ==
    /\ tr.pc = "done" /\ tr.of = "app" /\ tr.input = "error"
    /\ tr.mid = "pendente" /\ tr.out = "pending"
    /\ console # <<>> /\ console[Len(console)][2] = "error"

====
